---- MODULE Spec2Model ----
(***************************************************************************)
(* Model of pkg/validator/schema.go: the package initialisation that loads *)
(* the built-in catalog from the embedded check files, resolution of a     *)
(* check ID against the custom and built-in catalogs, the exemption        *)
(* annotations, and the five apply*SchemaChecks passes that loop over the  *)
(* configured check IDs.                                                   *)
(*                                                                         *)
(* Strings the code only compares for equality are TLA+ strings.  Strings  *)
(* the code transforms are modelled by what the transformation does:       *)
(*   - check IDs are ordered by sort.Strings, so every ID has its bytes    *)
(*     (Bytes) and the order is the bytewise lexicographic one;            *)
(*   - annotation values go through strings.ToLower, so a value is the     *)
(*     sequence of its Unicode code points and ToLower maps each of them;  *)
(*   - annotation keys are built by fmt.Sprintf from a pattern, so a key   *)
(*     is the sequence of the pattern's pieces with %s substituted.        *)
(***************************************************************************)
EXTENDS Naturals, Sequences, FiniteSets, TLC

\* conf and manifest are the arguments of the passes, builtInChecks is the
\* package variable of line 24, phase tells whether init has still to run
\* ("boot"), has returned ("ready") or has panicked ("panicked"), pass
\* holds the locals of each pass
VARIABLES conf, manifest, builtInChecks, phase, pass

vars == <<conf, manifest, builtInChecks, phase, pass>>

(***************************************************************************)
(* Bounds of the model.                                                    *)
(***************************************************************************)
\* the largest number of check IDs a configuration lists in conf.Checks
MaxChecks == 3
\* the largest number of annotations a manifest carries
MaxAnnotations == 2
\* the number of passes that run interleaved in SpecConcurrent
NumPasses == 2

(***************************************************************************)
(* Check IDs and their order.                                              *)
(***************************************************************************)
\* the IDs of the built-in checks and the ID of a check an organisation adds
CheckIDs ==
  {"multipleReplicasForDeployment", "hostIPCSet", "hostPIDSet",
   "hostNetworkSet", "memoryLimitsMissing", "memoryRequestsMissing",
   "cpuLimitsMissing", "cpuRequestsMissing", "readinessProbeMissing",
   "livenessProbeMissing", "pullPolicyNotAlways", "tagNotSpecified",
   "hostPortSet", "runAsRootAllowed", "runAsPrivileged",
   "notReadOnlyRootFilesystem", "privilegeEscalationAllowed",
   "dangerousCapabilities", "insecureCapabilities", "priorityClassNotSet",
   "tlsSettingsMissing", "pdbDisruptionsAllowedGreaterThanZero", "myOrgCheck"}

\* the IDs the configurations list in conf.Checks
ConfiguredCheckIDs ==
  {"hostIPCSet", "memoryLimitsMissing", "multipleReplicasForDeployment",
   "myOrgCheck", "tlsSettingsMissing"}

\* the bytes of each ID, which is what sort.Strings compares
Bytes(id) ==
  CASE id = "multipleReplicasForDeployment" ->
         <<109, 117, 108, 116, 105, 112, 108, 101, 82, 101, 112, 108, 105,
           99, 97, 115, 70, 111, 114, 68, 101, 112, 108, 111, 121, 109, 101,
           110, 116>>
    [] id = "hostIPCSet" ->
         <<104, 111, 115, 116, 73, 80, 67, 83, 101, 116>>
    [] id = "hostPIDSet" ->
         <<104, 111, 115, 116, 80, 73, 68, 83, 101, 116>>
    [] id = "hostNetworkSet" ->
         <<104, 111, 115, 116, 78, 101, 116, 119, 111, 114, 107, 83, 101, 116>>
    [] id = "memoryLimitsMissing" ->
         <<109, 101, 109, 111, 114, 121, 76, 105, 109, 105, 116, 115, 77,
           105, 115, 115, 105, 110, 103>>
    [] id = "memoryRequestsMissing" ->
         <<109, 101, 109, 111, 114, 121, 82, 101, 113, 117, 101, 115, 116,
           115, 77, 105, 115, 115, 105, 110, 103>>
    [] id = "cpuLimitsMissing" ->
         <<99, 112, 117, 76, 105, 109, 105, 116, 115, 77, 105, 115, 115, 105,
           110, 103>>
    [] id = "cpuRequestsMissing" ->
         <<99, 112, 117, 82, 101, 113, 117, 101, 115, 116, 115, 77, 105, 115,
           115, 105, 110, 103>>
    [] id = "readinessProbeMissing" ->
         <<114, 101, 97, 100, 105, 110, 101, 115, 115, 80, 114, 111, 98, 101,
           77, 105, 115, 115, 105, 110, 103>>
    [] id = "livenessProbeMissing" ->
         <<108, 105, 118, 101, 110, 101, 115, 115, 80, 114, 111, 98, 101, 77,
           105, 115, 115, 105, 110, 103>>
    [] id = "pullPolicyNotAlways" ->
         <<112, 117, 108, 108, 80, 111, 108, 105, 99, 121, 78, 111, 116, 65,
           108, 119, 97, 121, 115>>
    [] id = "tagNotSpecified" ->
         <<116, 97, 103, 78, 111, 116, 83, 112, 101, 99, 105, 102, 105, 101,
           100>>
    [] id = "hostPortSet" ->
         <<104, 111, 115, 116, 80, 111, 114, 116, 83, 101, 116>>
    [] id = "runAsRootAllowed" ->
         <<114, 117, 110, 65, 115, 82, 111, 111, 116, 65, 108, 108, 111, 119,
           101, 100>>
    [] id = "runAsPrivileged" ->
         <<114, 117, 110, 65, 115, 80, 114, 105, 118, 105, 108, 101, 103,
           101, 100>>
    [] id = "notReadOnlyRootFilesystem" ->
         <<110, 111, 116, 82, 101, 97, 100, 79, 110, 108, 121, 82, 111, 111,
           116, 70, 105, 108, 101, 115, 121, 115, 116, 101, 109>>
    [] id = "privilegeEscalationAllowed" ->
         <<112, 114, 105, 118, 105, 108, 101, 103, 101, 69, 115, 99, 97, 108,
           97, 116, 105, 111, 110, 65, 108, 108, 111, 119, 101, 100>>
    [] id = "dangerousCapabilities" ->
         <<100, 97, 110, 103, 101, 114, 111, 117, 115, 67, 97, 112, 97, 98,
           105, 108, 105, 116, 105, 101, 115>>
    [] id = "insecureCapabilities" ->
         <<105, 110, 115, 101, 99, 117, 114, 101, 67, 97, 112, 97, 98, 105,
           108, 105, 116, 105, 101, 115>>
    [] id = "priorityClassNotSet" ->
         <<112, 114, 105, 111, 114, 105, 116, 121, 67, 108, 97, 115, 115, 78,
           111, 116, 83, 101, 116>>
    [] id = "tlsSettingsMissing" ->
         <<116, 108, 115, 83, 101, 116, 116, 105, 110, 103, 115, 77, 105,
           115, 115, 105, 110, 103>>
    [] id = "pdbDisruptionsAllowedGreaterThanZero" ->
         <<112, 100, 98, 68, 105, 115, 114, 117, 112, 116, 105, 111, 110,
           115, 65, 108, 108, 111, 119, 101, 100, 71, 114, 101, 97, 116, 101,
           114, 84, 104, 97, 110, 90, 101, 114, 111>>
    [] id = "myOrgCheck" ->
         <<109, 121, 79, 114, 103, 67, 104, 101, 99, 107>>

RECURSIVE SeqLess(_, _)
\* bytewise lexicographic order of two byte sequences (Go's string <)
SeqLess(a, b) ==
  IF b = <<>> THEN FALSE
  ELSE IF a = <<>> THEN TRUE
  ELSE IF Head(a) < Head(b) THEN TRUE
  ELSE IF Head(a) > Head(b) THEN FALSE
  ELSE SeqLess(Tail(a), Tail(b))

StringLess(x, y) == SeqLess(Bytes(x), Bytes(y))

RECURSIVE SortStrings(_)
\* sort.Strings over a set of keys: the least key first
SortStrings(S) ==
  IF S = {} THEN <<>>
  ELSE LET least == CHOOSE x \in S : \A y \in S \ {x} : StringLess(x, y)
       IN  <<least>> \o SortStrings(S \ {least})

\* getSortedKeys: the keys of conf.Checks (map iteration order is arbitrary),
\* sorted
getSortedKeys(m) == SortStrings(DOMAIN m)

(***************************************************************************)
(* Annotations.                                                            *)
(***************************************************************************)
exemptionAnnotationKey == <<"polaris.fairwinds.com/exempt">>
exemptionAnnotationPattern == <<"polaris.fairwinds.com/", "%s", "-exempt">>

\* fmt.Sprintf(pattern, arg) for a pattern with %s or %v verbs
Sprintf(pattern, arg) ==
  [k \in DOMAIN pattern |->
     IF pattern[k] \in {"%s", "%v"} THEN arg ELSE pattern[k]]

\* unicode.ToLower on a code point beyond ASCII: the simple lower-case
\* mapping of the Unicode character database (version 14), as runs of
\* code points with one offset and runs of upper/lower pairs
LowerUnicode(c) ==
  CASE c \in 192..214 -> c + 32
    [] c \in 216..222 -> c + 32
    [] c \in 256..302 /\ (c - 256) % 2 = 0 -> c + 1
    [] c = 304 -> c - 199
    [] c \in 306..310 /\ (c - 306) % 2 = 0 -> c + 1
    [] c \in 313..327 /\ (c - 313) % 2 = 0 -> c + 1
    [] c \in 330..374 /\ (c - 330) % 2 = 0 -> c + 1
    [] c = 376 -> c - 121
    [] c \in 377..381 /\ (c - 377) % 2 = 0 -> c + 1
    [] c = 385 -> c + 210
    [] c \in 386..388 /\ (c - 386) % 2 = 0 -> c + 1
    [] c = 390 -> c + 206
    [] c = 391 -> c + 1
    [] c \in 393..394 -> c + 205
    [] c = 395 -> c + 1
    [] c = 398 -> c + 79
    [] c = 399 -> c + 202
    [] c = 400 -> c + 203
    [] c = 401 -> c + 1
    [] c = 403 -> c + 205
    [] c = 404 -> c + 207
    [] c = 406 -> c + 211
    [] c = 407 -> c + 209
    [] c = 408 -> c + 1
    [] c = 412 -> c + 211
    [] c = 413 -> c + 213
    [] c = 415 -> c + 214
    [] c \in 416..420 /\ (c - 416) % 2 = 0 -> c + 1
    [] c = 422 -> c + 218
    [] c = 423 -> c + 1
    [] c = 425 -> c + 218
    [] c = 428 -> c + 1
    [] c = 430 -> c + 218
    [] c = 431 -> c + 1
    [] c \in 433..434 -> c + 217
    [] c \in 435..437 /\ (c - 435) % 2 = 0 -> c + 1
    [] c = 439 -> c + 219
    [] c = 440 -> c + 1
    [] c = 444 -> c + 1
    [] c = 452 -> c + 2
    [] c = 453 -> c + 1
    [] c = 455 -> c + 2
    [] c = 456 -> c + 1
    [] c = 458 -> c + 2
    [] c \in 459..475 /\ (c - 459) % 2 = 0 -> c + 1
    [] c \in 478..494 /\ (c - 478) % 2 = 0 -> c + 1
    [] c = 497 -> c + 2
    [] c \in 498..500 /\ (c - 498) % 2 = 0 -> c + 1
    [] c = 502 -> c - 97
    [] c = 503 -> c - 56
    [] c \in 504..542 /\ (c - 504) % 2 = 0 -> c + 1
    [] c = 544 -> c - 130
    [] c \in 546..562 /\ (c - 546) % 2 = 0 -> c + 1
    [] c = 570 -> c + 10795
    [] c = 571 -> c + 1
    [] c = 573 -> c - 163
    [] c = 574 -> c + 10792
    [] c = 577 -> c + 1
    [] c = 579 -> c - 195
    [] c = 580 -> c + 69
    [] c = 581 -> c + 71
    [] c \in 582..590 /\ (c - 582) % 2 = 0 -> c + 1
    [] c \in 880..882 /\ (c - 880) % 2 = 0 -> c + 1
    [] c = 886 -> c + 1
    [] c = 895 -> c + 116
    [] c = 902 -> c + 38
    [] c \in 904..906 -> c + 37
    [] c = 908 -> c + 64
    [] c \in 910..911 -> c + 63
    [] c \in 913..929 -> c + 32
    [] c \in 931..939 -> c + 32
    [] c = 975 -> c + 8
    [] c \in 984..1006 /\ (c - 984) % 2 = 0 -> c + 1
    [] c = 1012 -> c - 60
    [] c = 1015 -> c + 1
    [] c = 1017 -> c - 7
    [] c = 1018 -> c + 1
    [] c \in 1021..1023 -> c - 130
    [] c \in 1024..1039 -> c + 80
    [] c \in 1040..1071 -> c + 32
    [] c \in 1120..1152 /\ (c - 1120) % 2 = 0 -> c + 1
    [] c \in 1162..1214 /\ (c - 1162) % 2 = 0 -> c + 1
    [] c = 1216 -> c + 15
    [] c \in 1217..1229 /\ (c - 1217) % 2 = 0 -> c + 1
    [] c \in 1232..1326 /\ (c - 1232) % 2 = 0 -> c + 1
    [] c \in 1329..1366 -> c + 48
    [] c \in 4256..4293 -> c + 7264
    [] c = 4295 -> c + 7264
    [] c = 4301 -> c + 7264
    [] c \in 5024..5103 -> c + 38864
    [] c \in 5104..5109 -> c + 8
    [] c \in 7312..7354 -> c - 3008
    [] c \in 7357..7359 -> c - 3008
    [] c \in 7680..7828 /\ (c - 7680) % 2 = 0 -> c + 1
    [] c = 7838 -> c - 7615
    [] c \in 7840..7934 /\ (c - 7840) % 2 = 0 -> c + 1
    [] c \in 7944..7951 -> c - 8
    [] c \in 7960..7965 -> c - 8
    [] c \in 7976..7983 -> c - 8
    [] c \in 7992..7999 -> c - 8
    [] c \in 8008..8013 -> c - 8
    [] c = 8025 -> c - 8
    [] c = 8027 -> c - 8
    [] c = 8029 -> c - 8
    [] c = 8031 -> c - 8
    [] c \in 8040..8047 -> c - 8
    [] c \in 8072..8079 -> c - 8
    [] c \in 8088..8095 -> c - 8
    [] c \in 8104..8111 -> c - 8
    [] c \in 8120..8121 -> c - 8
    [] c \in 8122..8123 -> c - 74
    [] c = 8124 -> c - 9
    [] c \in 8136..8139 -> c - 86
    [] c = 8140 -> c - 9
    [] c \in 8152..8153 -> c - 8
    [] c \in 8154..8155 -> c - 100
    [] c \in 8168..8169 -> c - 8
    [] c \in 8170..8171 -> c - 112
    [] c = 8172 -> c - 7
    [] c \in 8184..8185 -> c - 128
    [] c \in 8186..8187 -> c - 126
    [] c = 8188 -> c - 9
    [] c = 8486 -> c - 7517
    [] c = 8490 -> c - 8383
    [] c = 8491 -> c - 8262
    [] c = 8498 -> c + 28
    [] c \in 8544..8559 -> c + 16
    [] c = 8579 -> c + 1
    [] c \in 9398..9423 -> c + 26
    [] c \in 11264..11311 -> c + 48
    [] c = 11360 -> c + 1
    [] c = 11362 -> c - 10743
    [] c = 11363 -> c - 3814
    [] c = 11364 -> c - 10727
    [] c \in 11367..11371 /\ (c - 11367) % 2 = 0 -> c + 1
    [] c = 11373 -> c - 10780
    [] c = 11374 -> c - 10749
    [] c = 11375 -> c - 10783
    [] c = 11376 -> c - 10782
    [] c = 11378 -> c + 1
    [] c = 11381 -> c + 1
    [] c \in 11390..11391 -> c - 10815
    [] c \in 11392..11490 /\ (c - 11392) % 2 = 0 -> c + 1
    [] c \in 11499..11501 /\ (c - 11499) % 2 = 0 -> c + 1
    [] c = 11506 -> c + 1
    [] c \in 42560..42604 /\ (c - 42560) % 2 = 0 -> c + 1
    [] c \in 42624..42650 /\ (c - 42624) % 2 = 0 -> c + 1
    [] c \in 42786..42798 /\ (c - 42786) % 2 = 0 -> c + 1
    [] c \in 42802..42862 /\ (c - 42802) % 2 = 0 -> c + 1
    [] c \in 42873..42875 /\ (c - 42873) % 2 = 0 -> c + 1
    [] c = 42877 -> c - 35332
    [] c \in 42878..42886 /\ (c - 42878) % 2 = 0 -> c + 1
    [] c = 42891 -> c + 1
    [] c = 42893 -> c - 42280
    [] c \in 42896..42898 /\ (c - 42896) % 2 = 0 -> c + 1
    [] c \in 42902..42920 /\ (c - 42902) % 2 = 0 -> c + 1
    [] c = 42922 -> c - 42308
    [] c = 42923 -> c - 42319
    [] c = 42924 -> c - 42315
    [] c = 42925 -> c - 42305
    [] c = 42926 -> c - 42308
    [] c = 42928 -> c - 42258
    [] c = 42929 -> c - 42282
    [] c = 42930 -> c - 42261
    [] c = 42931 -> c + 928
    [] c \in 42932..42946 /\ (c - 42932) % 2 = 0 -> c + 1
    [] c = 42948 -> c - 48
    [] c = 42949 -> c - 42307
    [] c = 42950 -> c - 35384
    [] c \in 42951..42953 /\ (c - 42951) % 2 = 0 -> c + 1
    [] c = 42960 -> c + 1
    [] c \in 42966..42968 /\ (c - 42966) % 2 = 0 -> c + 1
    [] c = 42997 -> c + 1
    [] c \in 65313..65338 -> c + 32
    [] c \in 66560..66599 -> c + 40
    [] c \in 66736..66771 -> c + 40
    [] c \in 66928..66938 -> c + 39
    [] c \in 66940..66954 -> c + 39
    [] c \in 66956..66962 -> c + 39
    [] c \in 66964..66965 -> c + 39
    [] c \in 68736..68786 -> c + 64
    [] c \in 71840..71871 -> c + 32
    [] c \in 93760..93791 -> c + 32
    [] c \in 125184..125217 -> c + 34
    [] OTHER -> c

\* strings.ToLower on one code point: the ASCII letters A-Z by the offset
\* of the two cases, every other code point by unicode.ToLower
LowerChar(c) ==
  IF c < 128
  THEN IF c \in 65..90 THEN c + 32 ELSE c
  ELSE LowerUnicode(c)

\* strings.ToLower: a string is the sequence of its code points
ToLower(s) == [k \in DOMAIN s |-> LowerChar(s[k])]

\* annot[key] of a Go map: the zero value "" when the key is absent
MapGet(annot, key) == IF key \in DOMAIN annot THEN annot[key] ELSE <<>>

\* "true"
TrueString == <<116, 114, 117, 101>>

\* the annotation test without strings.ToLower
hasExemptionAnnotationCaseSensitive(ctrl, checkID) ==
  LET annot == ctrl.ObjectMeta.Annotations
  IN  \/ MapGet(annot, exemptionAnnotationKey) = TrueString
      \/ MapGet(annot, Sprintf(exemptionAnnotationPattern, checkID)) = TrueString

hasExemptionAnnotation(ctrl, checkID) ==
  LET annot == ctrl.ObjectMeta.Annotations
  IN  IF ToLower(MapGet(annot, exemptionAnnotationKey)) = TrueString
      THEN TRUE
      ELSE IF ToLower(MapGet(annot, Sprintf(exemptionAnnotationPattern, checkID)))
                = TrueString
      THEN TRUE
      ELSE FALSE

(***************************************************************************)
(* Check definitions (config.SchemaCheck) and the built-in catalog.        *)
(***************************************************************************)
TargetPod == "Pod"
TargetController == "Controller"
TargetContainer == "Container"
TargetOther == "Other"

Nil == <<>>

\* the predicate of a check (its JSON schema): the shape of the fragment it
\* reads, the field it reads and the value the field must have; with all
\* set, the field is read on every container and init container of a pod
SchemaField(shape, field, want) ==
  [shape |-> shape, field |-> field, want |-> want, all |-> FALSE]
SchemaAllContainers(field, want) ==
  [shape |-> "pod", field |-> field, want |-> want, all |-> TRUE]
NoSchema == [shape |-> "", field |-> "", want |-> FALSE, all |-> FALSE]

\* the zero config.SchemaCheck, standing for a nil *config.SchemaCheck
NoCheck ==
  [ID |-> "", Category |-> "", SuccessMessage |-> "", FailureMessage |-> "",
   Target |-> "", SchemaTarget |-> "", Containers |-> "", Schema |-> NoSchema]

\* a YAML document that decodes: the fields it sets
Document(category, success, failure, target, schema) ==
  [valid |-> TRUE, err |-> Nil,
   fields |-> [Category |-> category, SuccessMessage |-> success,
               FailureMessage |-> failure, Target |-> target,
               Schema |-> schema]]

\* a YAML document the decoder rejects
UndecodableDocument ==
  [valid |-> FALSE, err |-> "yaml: unmarshal error", fields |-> <<>>]

\* the name of the file of a check: checkID + ".yaml"
FileName(checkID) == <<checkID, ".yaml">>

\* the embedded check files (../../checks/<id>.yaml), each a sequence of
\* YAML documents; a file carries no ID
CheckFile(id) ==
  CASE id = "multipleReplicasForDeployment" ->
         <<Document("Reliability", "Multiple replicas are scheduled",
                    "Only one replica is scheduled",
                    TargetController, SchemaField("controller", "MultipleReplicas", TRUE))>>
    [] id = "hostIPCSet" ->
         <<Document("Security", "Host IPC is not configured",
                    "Host IPC should not be configured",
                    TargetPod, SchemaField("pod", "HostIPC", FALSE))>>
    [] id = "hostPIDSet" ->
         <<Document("Security", "Host PID is not configured",
                    "Host PID should not be configured",
                    TargetPod, SchemaField("pod", "HostPID", FALSE))>>
    [] id = "hostNetworkSet" ->
         <<Document("Networking", "Host network is not configured",
                    "Host network should not be configured",
                    TargetPod, SchemaField("pod", "HostNetwork", FALSE))>>
    [] id = "memoryLimitsMissing" ->
         <<Document("Resources", "Memory limits are set",
                    "Memory limits should be set",
                    TargetContainer, SchemaField("container", "MemoryLimit", TRUE))>>
    [] id = "memoryRequestsMissing" ->
         <<Document("Resources", "Memory requests are set",
                    "Memory requests should be set",
                    TargetContainer, SchemaField("container", "MemoryRequest", TRUE))>>
    [] id = "cpuLimitsMissing" ->
         <<Document("Resources", "CPU limits are set",
                    "CPU limits should be set",
                    TargetContainer, SchemaField("container", "CPULimit", TRUE))>>
    [] id = "cpuRequestsMissing" ->
         <<Document("Resources", "CPU requests are set",
                    "CPU requests should be set",
                    TargetContainer, SchemaField("container", "CPURequest", TRUE))>>
    [] id = "readinessProbeMissing" ->
         <<Document("Health Checks", "Readiness probe is configured",
                    "Readiness probe should be configured",
                    TargetContainer, SchemaField("container", "ReadinessProbe", TRUE))>>
    [] id = "livenessProbeMissing" ->
         <<Document("Health Checks", "Liveness probe is configured",
                    "Liveness probe should be configured",
                    TargetContainer, SchemaField("container", "LivenessProbe", TRUE))>>
    [] id = "pullPolicyNotAlways" ->
         <<Document("Images", "Image pull policy is Always",
                    "Image pull policy is not set to Always",
                    TargetContainer, SchemaField("container", "PullPolicyAlways", TRUE))>>
    [] id = "tagNotSpecified" ->
         <<Document("Images", "Image tag is specified",
                    "Image tag should be specified",
                    TargetContainer, SchemaField("container", "TagSpecified", TRUE))>>
    [] id = "hostPortSet" ->
         <<Document("Networking", "Host port is not configured",
                    "Host port should not be configured",
                    TargetContainer, SchemaField("container", "HostPort", FALSE))>>
    [] id = "runAsRootAllowed" ->
         <<Document("Security", "Is not allowed to run as root",
                    "Should not be allowed to run as root",
                    TargetContainer, SchemaField("container", "RunAsRoot", FALSE))>>
    [] id = "runAsPrivileged" ->
         <<Document("Security", "Not running as privileged",
                    "Should not be running as privileged",
                    TargetContainer, SchemaField("container", "Privileged", FALSE))>>
    [] id = "notReadOnlyRootFilesystem" ->
         <<Document("Security", "Filesystem is read only",
                    "Filesystem should be read only",
                    TargetContainer, SchemaField("container", "ReadOnlyRootFilesystem", TRUE))>>
    [] id = "privilegeEscalationAllowed" ->
         <<Document("Security", "Privilege escalation not allowed",
                    "Privilege escalation should not be allowed",
                    TargetContainer, SchemaField("container", "PrivilegeEscalation", FALSE))>>
    [] id = "dangerousCapabilities" ->
         <<Document("Security", "Container does not have any dangerous capabilities",
                    "Container should not have dangerous capabilities",
                    TargetContainer, SchemaField("container", "DangerousCapabilities", FALSE))>>
    [] id = "insecureCapabilities" ->
         <<Document("Security", "Container does not have any insecure capabilities",
                    "Container should not have insecure capabilities",
                    TargetContainer, SchemaField("container", "InsecureCapabilities", FALSE))>>
    [] id = "priorityClassNotSet" ->
         <<Document("Reliability", "Priority class has been set",
                    "Priority class should be set",
                    TargetPod, SchemaField("pod", "PriorityClassSet", TRUE))>>
    [] id = "tlsSettingsMissing" ->
         <<Document("Security", "Ingress has TLS configured",
                    "Ingress does not have TLS configured",
                    TargetOther, SchemaField("object", "TLS", TRUE))>>
    [] id = "pdbDisruptionsAllowedGreaterThanZero" ->
         <<Document("Reliability", "Voluntary evictions are possible",
                    "Voluntary evictions are not possible",
                    TargetOther, SchemaField("object", "DisruptionsAllowed", TRUE))>>

\* the declared order of the built-in checks (controller, pod, container,
\* other), which is not the alphabetical one
checkOrder ==
  <<"multipleReplicasForDeployment", "hostIPCSet", "hostPIDSet",
    "hostNetworkSet", "memoryLimitsMissing", "memoryRequestsMissing",
    "cpuLimitsMissing", "cpuRequestsMissing", "readinessProbeMissing",
    "livenessProbeMissing", "pullPolicyNotAlways", "tagNotSpecified",
    "hostPortSet", "runAsRootAllowed", "runAsPrivileged",
    "notReadOnlyRootFilesystem", "privilegeEscalationAllowed",
    "dangerousCapabilities", "insecureCapabilities", "priorityClassNotSet",
    "tlsSettingsMissing", "pdbDisruptionsAllowedGreaterThanZero">>

schemaBox ==
  [f \in {FileName(checkOrder[k]) : k \in DOMAIN checkOrder} |-> CheckFile(f[1])]

\* a box that lacks the file of tlsSettingsMissing
schemaBoxMissingFile ==
  [f \in DOMAIN schemaBox \ {FileName("tlsSettingsMissing")} |-> schemaBox[f]]

\* a box whose first file holds two documents, the second one setting the
\* failure message and the category again, and whose file of hostNetworkSet
\* holds a document that does not decode after one that does
schemaBoxUndecodable ==
  [f \in DOMAIN schemaBox |->
     IF f = FileName("multipleReplicasForDeployment")
     THEN schemaBox[f] \o
            <<[valid |-> TRUE, err |-> Nil,
               fields |-> [Category |-> "Efficiency",
                           FailureMessage |-> "Scale the deployment out"]]>>
     ELSE IF f = FileName("hostNetworkSet")
     THEN schemaBox[f] \o <<UndecodableDocument>>
     ELSE schemaBox[f]]

\* the contents the box may have been built with
SchemaBoxes == {schemaBox, schemaBoxMissingFile, schemaBoxUndecodable}

\* schemaBox.Find: the contents of the file, or an error when the box has no
\* file of that name
Find(box, name) ==
  IF name \in DOMAIN box
  THEN [contents |-> box[name], err |-> Nil]
  ELSE [contents |-> <<>>, err |-> <<"file does not exist: ", name>>]

RECURSIVE decodeFrom(_, _, _)
\* the for loop of parseCheck from document k on: d.Decode(&check) writes
\* the fields of the document over the same check, io.EOF after the last
\* document returns the check, any other error returns it with the error
decodeFrom(rawBytes, k, check) ==
  IF k > Len(rawBytes) THEN [check |-> check, err |-> Nil]
  ELSE IF ~rawBytes[k].valid
  THEN [check |-> check,
        err |-> Sprintf(<<"Decoding schema check failed: ", "%v">>,
                        rawBytes[k].err)]
  ELSE decodeFrom(rawBytes, k + 1,
                  [f \in DOMAIN check |->
                     IF f \in DOMAIN rawBytes[k].fields
                     THEN rawBytes[k].fields[f] ELSE check[f]])

\* parseCheck: decode every document of the file into one zero SchemaCheck
parseCheck(rawBytes) == decodeFrom(rawBytes, 1, NoCheck)

RECURSIVE initFrom(_, _, _)
\* init from entry k of checkOrder on: find the file (panic on an error),
\* parse it (panic on an error), set check.ID and store the check under its
\* ID; a panic leaves the catalog as far as it was built
initFrom(box, k, catalog) ==
  IF k > Len(checkOrder) THEN [catalog |-> catalog, panic |-> Nil]
  ELSE LET checkID == checkOrder[k]
           found == Find(box, FileName(checkID))
           parsed == parseCheck(found.contents)
           check == [parsed.check EXCEPT !.ID = checkID]
       IN  IF found.err # Nil
           THEN [catalog |-> catalog, panic |-> found.err]
           ELSE IF parsed.err # Nil
           THEN [catalog |-> catalog, panic |-> parsed.err]
           ELSE initFrom(box, k + 1,
                         [x \in DOMAIN catalog \cup {checkID} |->
                            IF x = checkID THEN check ELSE catalog[x]])

\* init over a box, starting from the empty map of line 24
init(box) == initFrom(box, 1, <<>>)

\* the built-in catalog as init leaves it over the embedded files
initBuiltInChecks == init(schemaBox).catalog

(***************************************************************************)
(* The predicate evaluator of package config (CheckPod, CheckController,   *)
(* CheckContainer, CheckObject): a predicate is evaluated on a fragment of *)
(* one shape and gives pass, fail or an error when the fragment has not    *)
(* the fields the predicate reads.                                         *)
(***************************************************************************)
MalformedError(check) == <<"malformed check ", check.ID>>

Evaluate(check, shape, fragment) ==
  LET s == check.Schema
  IN  IF s.shape # shape
      THEN [passes |-> FALSE, err |-> MalformedError(check)]
      ELSE IF s.all
      THEN IF \A k \in DOMAIN fragment.Containers :
                s.field \in DOMAIN fragment.Containers[k]
           THEN [passes |->
                   /\ \A k \in DOMAIN fragment.Containers :
                        fragment.Containers[k][s.field] = s.want
                   /\ \A k \in DOMAIN fragment.InitContainers :
                        fragment.InitContainers[k][s.field] = s.want,
                 err |-> Nil]
           ELSE [passes |-> FALSE, err |-> MalformedError(check)]
      ELSE IF s.field \in DOMAIN fragment
      THEN [passes |-> fragment[s.field] = s.want, err |-> Nil]
      ELSE [passes |-> FALSE, err |-> MalformedError(check)]

CheckPod(check, podSpec) == Evaluate(check, "pod", podSpec)
CheckController(check, json) == Evaluate(check, "controller", json)
CheckContainer(check, container) == Evaluate(check, "container", container)
CheckObject(check, unst) == Evaluate(check, "object", unst.Object)

(***************************************************************************)
(* Actionability (package config).                                         *)
(***************************************************************************)
\* conf.IsActionable: no exclusion rule of the configuration names this
\* check for this namespace, resource name and container ("" matches any)
ConfIsActionable(c, ruleID, namespace, name, containerName) ==
  ~ \E e \in c.Exemptions :
       /\ ruleID \in e.Rules
       /\ e.Namespace \in {"", namespace}
       /\ e.ControllerName \in {"", name}
       /\ e.ContainerName \in {"", containerName}

\* check.IsActionable: the check's declared target is the scope evaluated,
\* and a container check declared for init containers only (or for regular
\* containers only) is run on those only
CheckIsActionable(check, target, kind, isInitContainer) ==
  /\ check.Target = target
  /\ target = TargetContainer =>
       \/ check.Containers = ""
       \/ check.Containers = "initContainer" /\ isInitContainer
       \/ check.Containers = "container" /\ ~isInitContainer

(***************************************************************************)
(* resolveCheck and makeResult.                                            *)
(***************************************************************************)
NotFoundError(checkID) == Sprintf(<<"Check ", "%s", " not found">>, checkID)

\* the lookup with the built-in catalog first
lookupBuiltInFirst(c, catalog, checkID) ==
  IF checkID \in DOMAIN catalog
  THEN [check |-> catalog[checkID], ok |-> TRUE]
  ELSE IF checkID \in DOMAIN c.CustomChecks
  THEN [check |-> c.CustomChecks[checkID], ok |-> TRUE]
  ELSE [check |-> NoCheck, ok |-> FALSE]

\* the lookup of lines 88-91: the custom checks first, then the built-in ones
lookupCheck(c, catalog, checkID) ==
  IF checkID \in DOMAIN c.CustomChecks
  THEN [check |-> c.CustomChecks[checkID], ok |-> TRUE]
  ELSE IF checkID \in DOMAIN catalog
  THEN [check |-> catalog[checkID], ok |-> TRUE]
  ELSE [check |-> NoCheck, ok |-> FALSE]

\* resolveCheck without the structural test of lines 101-103
resolveCheckGlobalOnly(c, catalog, checkID, kind, target, meta, containerName, isInitContainer) ==
  LET found == lookupCheck(c, catalog, checkID)
  IN  IF ~found.ok
      THEN [check |-> NoCheck, isNil |-> TRUE, err |-> NotFoundError(checkID)]
      ELSE IF ~ConfIsActionable(c, found.check.ID, meta.Namespace, meta.Name,
                                containerName)
      THEN [check |-> NoCheck, isNil |-> TRUE, err |-> Nil]
      ELSE [check |-> found.check, isNil |-> FALSE, err |-> Nil]

\* resolveCheck with the global actionability test before the lookup
resolveCheckActionableFirst(c, catalog, checkID, kind, target, meta, containerName, isInitContainer) ==
  LET found == lookupCheck(c, catalog, checkID)
  IN  IF ~ConfIsActionable(c, checkID, meta.Namespace, meta.Name, containerName)
      THEN [check |-> NoCheck, isNil |-> TRUE, err |-> Nil]
      ELSE IF ~found.ok
      THEN [check |-> NoCheck, isNil |-> TRUE, err |-> NotFoundError(checkID)]
      ELSE IF ~CheckIsActionable(found.check, target, kind, isInitContainer)
      THEN [check |-> NoCheck, isNil |-> TRUE, err |-> Nil]
      ELSE [check |-> found.check, isNil |-> FALSE, err |-> Nil]

resolveCheck(c, catalog, checkID, kind, target, meta, containerName, isInitContainer) ==
  LET found == lookupCheck(c, catalog, checkID)
  IN  IF ~found.ok
      THEN [check |-> NoCheck, isNil |-> TRUE, err |-> NotFoundError(checkID)]
      ELSE IF ~ConfIsActionable(c, found.check.ID, meta.Namespace, meta.Name,
                                containerName)
      THEN [check |-> NoCheck, isNil |-> TRUE, err |-> Nil]
      ELSE IF ~CheckIsActionable(found.check, target, kind, isInitContainer)
      THEN [check |-> NoCheck, isNil |-> TRUE, err |-> Nil]
      ELSE [check |-> found.check, isNil |-> FALSE, err |-> Nil]

\* conf.Checks[id] of a Go map: the zero Severity "" when the key is absent
SeverityOf(c, id) == IF id \in DOMAIN c.Checks THEN c.Checks[id] ELSE ""

makeResult(c, check, passes) ==
  [ID |-> check.ID,
   Severity |-> SeverityOf(c, check.ID),
   Category |-> check.Category,
   Success |-> passes,
   Message |-> IF passes THEN check.SuccessMessage ELSE check.FailureMessage]

(***************************************************************************)
(* One iteration of each pass's loop over the sorted check IDs.  An        *)
(* iteration ends in one of five ways:                                     *)
(*   exempted      the exemption test held: continue                       *)
(*   resolveError  resolveCheck returned an error: return nil, err         *)
(*   skipped       resolveCheck returned nil, nil: continue                *)
(*   evalError     the predicate returned an error: return nil, err        *)
(*   recorded      results[check.ID] = makeResult(conf, check, passes)     *)
(***************************************************************************)
NoResult ==
  [ID |-> "", Severity |-> "", Category |-> "", Success |-> FALSE, Message |-> ""]

\* what follows resolveCheck in every loop body; ev is the predicate's
\* evaluation, used only when a check was resolved
afterResolve(c, r, ev) ==
  IF r.err # Nil
  THEN [kind |-> "resolveError", err |-> r.err, id |-> "", msg |-> NoResult]
  ELSE IF r.isNil
  THEN [kind |-> "skipped", err |-> Nil, id |-> "", msg |-> NoResult]
  ELSE IF ev.err # Nil
  THEN [kind |-> "evalError", err |-> ev.err, id |-> "", msg |-> NoResult]
  ELSE [kind |-> "recorded", err |-> Nil, id |-> r.check.ID,
        msg |-> makeResult(c, r.check, ev.passes)]

Exempted == [kind |-> "exempted", err |-> Nil, id |-> "", msg |-> NoResult]

\* the exemption test without the DisallowExemptions guard
exemptionAppliesAlways(c, controller, checkID) ==
  hasExemptionAnnotation(controller, checkID)

\* the test of lines 143, 166 and 189
exemptionApplies(c, controller, checkID) ==
  ~c.DisallowExemptions /\ hasExemptionAnnotation(controller, checkID)

\* the pod loop body with resolveCheck called before the exemption test
podIterationResolveFirst(c, catalog, controller, checkID) ==
  LET r == resolveCheck(c, catalog, checkID, controller.Kind, TargetPod,
                        controller.ObjectMeta, "", FALSE)
  IN  IF r.err # Nil THEN afterResolve(c, r, [passes |-> FALSE, err |-> Nil])
      ELSE IF exemptionApplies(c, controller, checkID) THEN Exempted
      ELSE afterResolve(c, r, CheckPod(r.check, controller.PodSpec))

podIteration(c, catalog, controller, checkID) ==
  IF exemptionApplies(c, controller, checkID) THEN Exempted
  ELSE LET r == resolveCheck(c, catalog, checkID, controller.Kind, TargetPod,
                             controller.ObjectMeta, "", FALSE)
       IN  afterResolve(c, r, CheckPod(r.check, controller.PodSpec))

controllerIteration(c, catalog, controller, checkID) ==
  IF exemptionApplies(c, controller, checkID) THEN Exempted
  ELSE LET r == resolveCheck(c, catalog, checkID, controller.Kind,
                             TargetController, controller.ObjectMeta, "", FALSE)
       IN  afterResolve(c, r,
                        CheckController(r.check, controller.OriginalObjectJSON))

\* the podCopy of lines 201-203 without the two assignments
podCopyAllContainers(podSpec, container) == podSpec

\* the podCopy of lines 201-203
podCopy(podSpec, container) ==
  [podSpec EXCEPT !.InitContainers = <<>>, !.Containers = <<container>>]

containerIteration(c, catalog, controller, container, isInit, checkID) ==
  IF exemptionApplies(c, controller, checkID) THEN Exempted
  ELSE LET r == resolveCheck(c, catalog, checkID, controller.Kind,
                             TargetContainer, controller.ObjectMeta,
                             container.Name, isInit)
       IN  afterResolve(c, r,
             IF r.check.SchemaTarget = TargetPod
             THEN CheckPod(r.check, podCopy(controller.PodSpec, container))
             ELSE CheckContainer(r.check, container))

\* meta.Accessor never fails on an *unstructured.Unstructured, so the early
\* return of lines 220-222 and 243-245 is not taken
otherIteration(c, catalog, unst, checkID) ==
  LET r == resolveCheck(c, catalog, checkID, unst.Kind, "", unst.ObjectMeta,
                        "", FALSE)
  IN  afterResolve(c, r, CheckObject(r.check, unst))

arbitraryIteration(c, catalog, unst, checkID) ==
  LET r == resolveCheck(c, catalog, checkID, unst.Kind, TargetOther,
                        unst.ObjectMeta, "", FALSE)
  IN  afterResolve(c, r, CheckObject(r.check, unst))

(***************************************************************************)
(* A whole pass, run alone: the loop over the sorted keys.                 *)
(***************************************************************************)
EmptyResultSet == <<>>

\* results[id] = msg
put(results, id, msg) ==
  [x \in DOMAIN results \cup {id} |-> IF x = id THEN msg ELSE results[x]]

NilReturn(err) == [results |-> EmptyResultSet, isNil |-> TRUE, err |-> err]

RECURSIVE runLoop(_, _, _)
\* the for loop over the outcomes of the iterations, from iteration k on
runLoop(outcomes, k, results) ==
  IF k > Len(outcomes)
  THEN [results |-> results, isNil |-> FALSE, err |-> Nil]
  ELSE LET o == outcomes[k]
       IN  IF o.kind \in {"resolveError", "evalError"} THEN NilReturn(o.err)
           ELSE IF o.kind = "recorded"
           THEN runLoop(outcomes, k + 1, put(results, o.id, o.msg))
           ELSE runLoop(outcomes, k + 1, results)

applyPodSchemaChecks(c, catalog, controller) ==
  LET checkIDs == getSortedKeys(c.Checks)
  IN  runLoop([k \in DOMAIN checkIDs |->
                 podIteration(c, catalog, controller, checkIDs[k])],
              1, EmptyResultSet)

applyControllerSchemaChecks(c, catalog, controller) ==
  LET checkIDs == getSortedKeys(c.Checks)
  IN  runLoop([k \in DOMAIN checkIDs |->
                 controllerIteration(c, catalog, controller, checkIDs[k])],
              1, EmptyResultSet)

applyContainerSchemaChecks(c, catalog, controller, container, isInit) ==
  LET checkIDs == getSortedKeys(c.Checks)
  IN  runLoop([k \in DOMAIN checkIDs |->
                 containerIteration(c, catalog, controller, container, isInit,
                                    checkIDs[k])],
              1, EmptyResultSet)

applyOtherSchemaChecks(c, catalog, unst) ==
  LET checkIDs == getSortedKeys(c.Checks)
  IN  runLoop([k \in DOMAIN checkIDs |->
                 otherIteration(c, catalog, unst, checkIDs[k])],
              1, EmptyResultSet)

applyArbitrarySchemaChecks(c, catalog, unst) ==
  LET checkIDs == getSortedKeys(c.Checks)
  IN  runLoop([k \in DOMAIN checkIDs |->
                 arbitraryIteration(c, catalog, unst, checkIDs[k])],
              1, EmptyResultSet)

(***************************************************************************)
(* The inputs: configurations and manifests.                               *)
(***************************************************************************)
DefaultSeverity(id) ==
  IF id \in {"hostIPCSet", "myOrgCheck"} THEN "danger" ELSE "warning"

\* a custom check of the configuration; config sets its ID to its key
Custom(id, category, target, schemaTarget, containers, schema) ==
  [ID |-> id, Category |-> category,
   SuccessMessage |-> "custom check passed",
   FailureMessage |-> "custom check failed",
   Target |-> target, SchemaTarget |-> schemaTarget,
   Containers |-> containers, Schema |-> schema]

\* the custom check maps the configurations are drawn from: none; a
\* pod-shaped container check and an override of hostIPCSet; an override of
\* memoryLimitsMissing for init containers, a pod check whose predicate
\* reads a controller field and an override of tlsSettingsMissing as a pod
\* check; an object check and an override of tlsSettingsMissing whose
\* predicate reads a pod field
CustomCheckSets ==
  { <<>>,
    [id \in {"myOrgCheck", "hostIPCSet"} |->
       IF id = "myOrgCheck"
       THEN Custom(id, "Org", TargetContainer, TargetPod, "",
                   SchemaAllContainers("MemoryLimit", TRUE))
       ELSE Custom(id, "Org", TargetController, "", "",
                   SchemaField("controller", "MultipleReplicas", TRUE))],
    [id \in {"memoryLimitsMissing", "multipleReplicasForDeployment",
             "tlsSettingsMissing"} |->
       IF id = "memoryLimitsMissing"
       THEN Custom(id, "Org", TargetContainer, TargetPod, "initContainer",
                   SchemaField("pod", "HostIPC", FALSE))
       ELSE IF id = "multipleReplicasForDeployment"
       THEN Custom(id, "Org", TargetPod, "", "",
                   SchemaField("controller", "MultipleReplicas", TRUE))
       ELSE Custom(id, "Org", TargetPod, "", "",
                   SchemaField("pod", "HostIPC", FALSE))],
    [id \in {"myOrgCheck", "tlsSettingsMissing"} |->
       IF id = "myOrgCheck"
       THEN Custom(id, "Org", TargetOther, "", "",
                   SchemaField("object", "TLS", TRUE))
       ELSE Custom(id, "Org", TargetOther, "", "",
                   SchemaField("pod", "HostIPC", FALSE))] }

\* the exclusion rules the configurations are drawn from
ExemptionRuleSets ==
  { {},
    { [Rules |-> {"memoryLimitsMissing", "myOrgCheck"},
       Namespace |-> "kube-system", ControllerName |-> "", ContainerName |-> ""],
      [Rules |-> {"hostIPCSet", "myOrgCheck"},
       Namespace |-> "", ControllerName |-> "", ContainerName |-> "sidecar"] } }

CheckLists == {S \in SUBSET ConfiguredCheckIDs : Cardinality(S) <= MaxChecks}

\* exemptions allowed, with and without exclusion rules, or disallowed
ExemptionPolicies ==
  {[disallow |-> FALSE, rules |-> ex] : ex \in ExemptionRuleSets} \cup
  {[disallow |-> TRUE, rules |-> {}]}

Configurations ==
  { [Checks |-> [id \in S |-> DefaultSeverity(id)],
     CustomChecks |-> cc,
     DisallowExemptions |-> pol.disallow,
     Exemptions |-> pol.rules] :
    S \in CheckLists, cc \in CustomCheckSets, pol \in ExemptionPolicies }

\* the values of the annotations: "true", "TrUe", "false", and "TRU" followed
\* by U+00C9 (E with acute), whose lower case is U+00E9 and not "e"
AnnotationValues ==
  { <<116, 114, 117, 101>>, <<84, 114, 85, 101>>, <<102, 97, 108, 115, 101>>,
    <<84, 82, 85, 201>> }

AnnotationKeys ==
  {exemptionAnnotationKey} \cup
  {Sprintf(exemptionAnnotationPattern, id) : id \in {"memoryLimitsMissing", "myOrgCheck"}}

\* the blanket annotation is "true" or "false", the annotation of one check
\* is "TrUe" or the value with the accented letter
AnnotationValuesOf(key) ==
  IF key = exemptionAnnotationKey
  THEN {<<116, 114, 117, 101>>, <<102, 97, 108, 115, 101>>}
  ELSE {<<84, 114, 85, 101>>, <<84, 82, 85, 201>>}

AnnotationMaps ==
  UNION { {a \in [K -> AnnotationValues] : \A k \in K : a[k] \in AnnotationValuesOf(k)} :
          K \in {K \in SUBSET AnnotationKeys : Cardinality(K) <= MaxAnnotations} }

\* a container: its name and what the built-in container checks read
Container(name, memoryLimit) ==
  [Name |-> name, MemoryLimit |-> memoryLimit, MemoryRequest |-> memoryLimit,
   CPULimit |-> TRUE, CPURequest |-> TRUE, ReadinessProbe |-> TRUE,
   LivenessProbe |-> FALSE, PullPolicyAlways |-> TRUE, TagSpecified |-> TRUE,
   HostPort |-> FALSE, RunAsRoot |-> FALSE, Privileged |-> FALSE,
   ReadOnlyRootFilesystem |-> TRUE, PrivilegeEscalation |-> FALSE,
   DangerousCapabilities |-> FALSE, InsecureCapabilities |-> FALSE]
NoContainer == Container("", FALSE)

\* the workloads (kube.GenericWorkload) without their annotations
WorkloadTemplates ==
  { [Kind |-> "Deployment",
     ObjectMeta |-> [Namespace |-> "default", Name |-> "web", Annotations |-> <<>>],
     PodSpec |-> [HostIPC |-> FALSE, HostPID |-> FALSE, HostNetwork |-> FALSE,
                  PriorityClassSet |-> FALSE,
                  Containers |-> <<Container("app", FALSE)>>,
                  InitContainers |-> <<>>],
     OriginalObjectJSON |-> [MultipleReplicas |-> TRUE]],
    [Kind |-> "Deployment",
     ObjectMeta |-> [Namespace |-> "default", Name |-> "api", Annotations |-> <<>>],
     PodSpec |-> [HostIPC |-> FALSE, HostPID |-> FALSE, HostNetwork |-> FALSE,
                  PriorityClassSet |-> FALSE,
                  Containers |-> <<Container("app", TRUE), Container("sidecar", FALSE)>>,
                  InitContainers |-> <<>>],
     OriginalObjectJSON |-> [MultipleReplicas |-> FALSE]],
    [Kind |-> "DaemonSet",
     ObjectMeta |-> [Namespace |-> "kube-system", Name |-> "dns", Annotations |-> <<>>],
     PodSpec |-> [HostIPC |-> TRUE, HostPID |-> FALSE, HostNetwork |-> TRUE,
                  PriorityClassSet |-> TRUE,
                  Containers |-> <<Container("app", FALSE), Container("sidecar", TRUE)>>,
                  InitContainers |-> <<Container("init", FALSE)>>],
     OriginalObjectJSON |-> [MultipleReplicas |-> TRUE]] }

\* the other objects (unstructured.Unstructured) without their annotations
ObjectTemplates ==
  { [Kind |-> "Ingress",
     ObjectMeta |-> [Namespace |-> "default", Name |-> "ing", Annotations |-> <<>>],
     Object |-> [TLS |-> TRUE, DisruptionsAllowed |-> TRUE]],
    [Kind |-> "Ingress",
     ObjectMeta |-> [Namespace |-> "kube-system", Name |-> "dash", Annotations |-> <<>>],
     Object |-> [TLS |-> FALSE, DisruptionsAllowed |-> FALSE]] }

WithAnnotations(m, annot) == [m EXCEPT !.ObjectMeta.Annotations = annot]

Workloads == {WithAnnotations(w, a) : w \in WorkloadTemplates, a \in AnnotationMaps}
\* the other objects carry the blanket annotation and that of myOrgCheck
Objects ==
  { WithAnnotations(o, a) :
    o \in ObjectTemplates,
    a \in {a \in AnnotationMaps :
             Sprintf(exemptionAnnotationPattern, "memoryLimitsMissing") \notin DOMAIN a} }
Manifests == Workloads \cup Objects

IsWorkload(m) == "PodSpec" \in DOMAIN m

(***************************************************************************)
(* The state machine: passes over one manifest under one configuration.    *)
(* A pass is a call of one of the five entry points; it advances one loop  *)
(* iteration at a time, and passes interleave between iterations.          *)
(***************************************************************************)
IdlePass ==
  [pc |-> "idle", scope |-> "", container |-> NoContainer, isInit |-> FALSE,
   checkIDs |-> <<>>, i |-> 1, results |-> EmptyResultSet, trace |-> <<>>,
   ret |-> NilReturn(Nil)]

\* entering a pass: results := ResultSet{}, checkIDs := getSortedKeys(conf.Checks)
Enter(p, scope, container, isInit) ==
  /\ phase = "ready"
  /\ pass[p].pc = "idle"
  /\ pass' = [pass EXCEPT ![p] =
                [IdlePass EXCEPT !.pc = "loop", !.scope = scope,
                                 !.container = container, !.isInit = isInit,
                                 !.checkIDs = getSortedKeys(conf.Checks)]]
  /\ UNCHANGED <<conf, manifest, builtInChecks, phase>>

\* Iterate returning the results recorded so far along with the error
IteratePartial(p, o) ==
  LET ps == pass[p]
      tr == Append(ps.trace, [id |-> ps.checkIDs[ps.i], kind |-> o.kind])
  IN  /\ pass' = [pass EXCEPT ![p] =
                    IF o.kind \in {"resolveError", "evalError"}
                    THEN [ps EXCEPT !.pc = "done",
                                    !.ret = [results |-> ps.results,
                                             isNil |-> FALSE, err |-> o.err],
                                    !.trace = tr]
                    ELSE IF o.kind = "recorded"
                    THEN [ps EXCEPT !.results = put(ps.results, o.id, o.msg),
                                    !.i = ps.i + 1, !.trace = tr]
                    ELSE [ps EXCEPT !.i = ps.i + 1, !.trace = tr]]
      /\ UNCHANGED <<conf, manifest, builtInChecks, phase>>

\* Iterate with one ResultSet shared by the passes in progress
IterateSharedResults(p, o) ==
  LET ps == pass[p]
      tr == Append(ps.trace, [id |-> ps.checkIDs[ps.i], kind |-> o.kind])
  IN  /\ pass' = [q \in DOMAIN pass |->
                    IF q # p
                    THEN IF o.kind = "recorded" /\ pass[q].pc = "loop"
                         THEN [pass[q] EXCEPT
                                 !.results = put(pass[q].results, o.id, o.msg)]
                         ELSE pass[q]
                    ELSE IF o.kind \in {"resolveError", "evalError"}
                    THEN [ps EXCEPT !.pc = "done", !.ret = NilReturn(o.err),
                                    !.trace = tr]
                    ELSE IF o.kind = "recorded"
                    THEN [ps EXCEPT !.results = put(ps.results, o.id, o.msg),
                                    !.i = ps.i + 1, !.trace = tr]
                    ELSE [ps EXCEPT !.i = ps.i + 1, !.trace = tr]]
      /\ UNCHANGED <<conf, manifest, builtInChecks, phase>>

\* the effect of one iteration that ended as outcome o
Iterate(p, o) ==
  LET ps == pass[p]
      tr == Append(ps.trace, [id |-> ps.checkIDs[ps.i], kind |-> o.kind])
  IN  /\ pass' = [pass EXCEPT ![p] =
                    IF o.kind \in {"resolveError", "evalError"}
                    THEN [ps EXCEPT !.pc = "done", !.ret = NilReturn(o.err),
                                    !.trace = tr]
                    ELSE IF o.kind = "recorded"
                    THEN [ps EXCEPT !.results = put(ps.results, o.id, o.msg),
                                    !.i = ps.i + 1, !.trace = tr]
                    ELSE [ps EXCEPT !.i = ps.i + 1, !.trace = tr]]
      /\ UNCHANGED <<conf, manifest, builtInChecks, phase>>

InLoop(p, scope) ==
  /\ pass[p].pc = "loop"
  /\ pass[p].scope = scope
  /\ pass[p].i <= Len(pass[p].checkIDs)

PodCall(p) == IsWorkload(manifest) /\ Enter(p, "Pod", NoContainer, FALSE)

PodLoop(p) ==
  /\ InLoop(p, "Pod")
  /\ Iterate(p, podIteration(conf, builtInChecks, manifest,
                             pass[p].checkIDs[pass[p].i]))

ControllerCall(p) == IsWorkload(manifest) /\ Enter(p, "Controller", NoContainer, FALSE)

ControllerLoop(p) ==
  /\ InLoop(p, "Controller")
  /\ Iterate(p, controllerIteration(conf, builtInChecks, manifest,
                                    pass[p].checkIDs[pass[p].i]))

\* the caller runs the container pass on each container of the pod
\* specification, the init containers with isInit set
ContainerCall(p) ==
  /\ IsWorkload(manifest)
  /\ \/ \E k \in DOMAIN manifest.PodSpec.Containers :
          Enter(p, "Container", manifest.PodSpec.Containers[k], FALSE)
     \/ \E k \in DOMAIN manifest.PodSpec.InitContainers :
          Enter(p, "Container", manifest.PodSpec.InitContainers[k], TRUE)

ContainerLoop(p) ==
  /\ InLoop(p, "Container")
  /\ Iterate(p, containerIteration(conf, builtInChecks, manifest,
                                   pass[p].container, pass[p].isInit,
                                   pass[p].checkIDs[pass[p].i]))

OtherCall(p) == ~IsWorkload(manifest) /\ Enter(p, "Other", NoContainer, FALSE)

OtherLoop(p) ==
  /\ InLoop(p, "Other")
  /\ Iterate(p, otherIteration(conf, builtInChecks, manifest,
                               pass[p].checkIDs[pass[p].i]))

ArbitraryCall(p) == ~IsWorkload(manifest) /\ Enter(p, "Arbitrary", NoContainer, FALSE)

ArbitraryLoop(p) ==
  /\ InLoop(p, "Arbitrary")
  /\ Iterate(p, arbitraryIteration(conf, builtInChecks, manifest,
                                   pass[p].checkIDs[pass[p].i]))

\* the loop is over: return results, nil
ReturnResults(p) ==
  /\ pass[p].pc = "loop"
  /\ pass[p].i > Len(pass[p].checkIDs)
  /\ pass' = [pass EXCEPT ![p].pc = "done",
                          ![p].ret = [results |-> pass[p].results,
                                      isNil |-> FALSE, err |-> Nil]]
  /\ UNCHANGED <<conf, manifest, builtInChecks, phase>>

\* the package initialisation: init runs once over the embedded files,
\* before any pass; a panic ends the process
PackageInit ==
  /\ phase = "boot"
  /\ \E box \in SchemaBoxes :
       LET r == init(box)
       IN  /\ builtInChecks' = r.catalog
           /\ phase' = IF r.panic = Nil THEN "ready" ELSE "panicked"
  /\ UNCHANGED <<conf, manifest, pass>>

Init ==
  /\ conf \in Configurations
  /\ manifest \in Manifests
  /\ builtInChecks = <<>>
  /\ phase = "boot"
  /\ pass = [p \in {1} |-> IdlePass]

Next ==
  \/ PackageInit
  \/ \E p \in DOMAIN pass :
       \/ PodCall(p)
       \/ PodLoop(p)
       \/ ControllerCall(p)
       \/ ControllerLoop(p)
       \/ ContainerCall(p)
       \/ ContainerLoop(p)
       \/ OtherCall(p)
       \/ OtherLoop(p)
       \/ ArbitraryCall(p)
       \/ ArbitraryLoop(p)
       \/ ReturnResults(p)

Spec == Init /\ [][Next]_vars

(***************************************************************************)
(* Passes interleaved: NumPasses passes over one manifest and one          *)
(* configuration, drawn from a part of the inputs.                         *)
(***************************************************************************)
ConcurrentConfigurations ==
  { c \in Configurations :
      /\ DOMAIN c.Checks \in
           { {"hostIPCSet", "memoryLimitsMissing"},
             {"memoryLimitsMissing", "multipleReplicasForDeployment", "myOrgCheck"} }
      /\ c.Exemptions = {}
      /\ ~c.DisallowExemptions }

ConcurrentManifests ==
  { m \in Manifests :
      \A k \in DOMAIN m.ObjectMeta.Annotations :
        /\ k # exemptionAnnotationKey
        /\ m.ObjectMeta.Annotations[k] = <<84, 114, 85, 101>> }

InitConcurrent ==
  /\ conf \in ConcurrentConfigurations
  /\ manifest \in ConcurrentManifests
  /\ builtInChecks = <<>>
  /\ phase = "boot"
  /\ pass = [p \in 1..NumPasses |-> IdlePass]

SpecConcurrent == InitConcurrent /\ [][Next]_vars

(***************************************************************************)
(* Vocabulary of the properties.                                           *)
(***************************************************************************)
WorkloadScopes == {"Pod", "Controller", "Container"}

Done(p) == pass[p].pc = "done"

Annotations(m) == m.ObjectMeta.Annotations

\* the blanket annotation is "true" in some letter case
BlanketExempt(m) ==
  ToLower(MapGet(Annotations(m), exemptionAnnotationKey)) = TrueString

\* the per-check annotation of X is "true" in some letter case
PerCheckExempt(m, X) ==
  ToLower(MapGet(Annotations(m), Sprintf(exemptionAnnotationPattern, X))) = TrueString

\* the manifest without the annotation of key k
WithoutAnnotation(m, k) ==
  WithAnnotations(m, [x \in DOMAIN Annotations(m) \ {k} |-> Annotations(m)[x]])

\* configuration c with check ID X taken out of c.Checks
WithoutCheck(c, X) ==
  [c EXCEPT !.Checks = [id \in DOMAIN c.Checks \ {X} |-> c.Checks[id]]]

\* the target scope a pass hands to resolveCheck
TargetOf(scope) ==
  CASE scope = "Pod" -> TargetPod
    [] scope = "Controller" -> TargetController
    [] scope = "Container" -> TargetContainer
    [] scope = "Arbitrary" -> TargetOther
    [] OTHER -> ""

\* the pass of ps's entry point and arguments, run alone on manifest m
RunAlone(c, catalog, m, ps) ==
  CASE ps.scope = "Pod" -> applyPodSchemaChecks(c, catalog, m)
    [] ps.scope = "Controller" -> applyControllerSchemaChecks(c, catalog, m)
    [] ps.scope = "Container" ->
         applyContainerSchemaChecks(c, catalog, m, ps.container, ps.isInit)
    [] ps.scope = "Other" -> applyOtherSchemaChecks(c, catalog, m)
    [] ps.scope = "Arbitrary" -> applyArbitrarySchemaChecks(c, catalog, m)

\* one iteration of ps's entry point for check ID id on manifest m
IterationOf(c, catalog, m, ps, id) ==
  CASE ps.scope = "Pod" -> podIteration(c, catalog, m, id)
    [] ps.scope = "Controller" -> controllerIteration(c, catalog, m, id)
    [] ps.scope = "Container" ->
         containerIteration(c, catalog, m, ps.container, ps.isInit, id)
    [] ps.scope = "Other" -> otherIteration(c, catalog, m, id)
    [] ps.scope = "Arbitrary" -> arbitraryIteration(c, catalog, m, id)

\* the entries of two returned ResultSets agree on check ID Y
SameEntry(a, b, Y) ==
  /\ Y \in DOMAIN a.results <=> Y \in DOMAIN b.results
  /\ Y \in DOMAIN a.results => a.results[Y] = b.results[Y]

\* the ID is in neither the custom checks nor the built-in catalog
Unknown(X) == X \notin DOMAIN conf.CustomChecks /\ X \notin DOMAIN builtInChecks

\* the trace entries of pass p for check ID X
Entries(p, X) == {k \in DOMAIN pass[p].trace : pass[p].trace[k].id = X}

ErrorKinds == {"resolveError", "evalError"}

(***************************************************************************)
(* C1: for every entry point and every manifest whose blanket annotation   *)
(* polaris.fairwinds.com/exempt is "true" in any letter case, when the     *)
(* configuration does not disallow exemptions the pass returns an empty    *)
(* ResultSet and no error.                                                 *)
(***************************************************************************)
C1_BlanketExemptionEmptiesEveryPass ==
  \A p \in DOMAIN pass :
    (Done(p) /\ BlanketExempt(manifest) /\ ~conf.DisallowExemptions) =>
      /\ pass[p].ret.err = Nil
      /\ DOMAIN pass[p].ret.results = {}

(***************************************************************************)
(* C2 as stated: with the per-check annotation of X "true" (any letter     *)
(* case), no blanket exemption and exemptions allowed, a pod, controller   *)
(* or container pass returns no entry for X, and its entries for every     *)
(* other check ID are those of the same pass on the manifest without that  *)
(* annotation.                                                             *)
(***************************************************************************)
C2_Original ==
  \A p \in DOMAIN pass : \A X \in CheckIDs :
    ( /\ Done(p)
      /\ pass[p].scope \in WorkloadScopes
      /\ ~conf.DisallowExemptions
      /\ ~BlanketExempt(manifest)
      /\ PerCheckExempt(manifest, X) ) =>
      LET bare == WithoutAnnotation(manifest, Sprintf(exemptionAnnotationPattern, X))
          ref == RunAlone(conf, builtInChecks, bare, pass[p])
      IN  /\ X \notin DOMAIN pass[p].ret.results
          /\ \A Y \in CheckIDs \ {X} : SameEntry(pass[p].ret, ref, Y)

(***************************************************************************)
(* C2 amended: with the per-check annotation of X "true" (any letter       *)
(* case), no blanket exemption and exemptions allowed, a pod, controller   *)
(* or container pass returns no entry for X, and its ResultSet and error   *)
(* are exactly those of the same pass on the manifest without that         *)
(* annotation under the configuration with X removed from conf.Checks.     *)
(***************************************************************************)
C2_PerCheckExemption ==
  \A p \in DOMAIN pass : \A X \in CheckIDs :
    ( /\ Done(p)
      /\ pass[p].scope \in WorkloadScopes
      /\ ~conf.DisallowExemptions
      /\ ~BlanketExempt(manifest)
      /\ PerCheckExempt(manifest, X) ) =>
      LET bare == WithoutAnnotation(manifest, Sprintf(exemptionAnnotationPattern, X))
          ref == RunAlone(WithoutCheck(conf, X), builtInChecks, bare, pass[p])
      IN  /\ X \notin DOMAIN pass[p].ret.results
          /\ pass[p].ret = ref

\* a pass over a manifest exempting memoryLimitsMissing in mixed case has
\* returned another check's entry, and the same pass without the annotation
\* returns an entry for memoryLimitsMissing
C2_Witness ==
  \E p \in DOMAIN pass :
    /\ Done(p)
    /\ pass[p].scope = "Container"
    /\ ~conf.DisallowExemptions
    /\ ~BlanketExempt(manifest)
    /\ MapGet(Annotations(manifest),
              Sprintf(exemptionAnnotationPattern, "memoryLimitsMissing"))
         = <<84, 114, 85, 101>>
    /\ DOMAIN pass[p].ret.results = {"myOrgCheck"}
    /\ "memoryLimitsMissing" \in
         DOMAIN RunAlone(conf, builtInChecks,
                         WithAnnotations(manifest, <<>>), pass[p]).results

(***************************************************************************)
(* C3: when the configuration has DisallowExemptions set, every pass       *)
(* returns the ResultSet and error it returns for the same manifest with   *)
(* all exemption annotations removed.                                      *)
(***************************************************************************)
C3_DisallowIgnoresAnnotations ==
  \A p \in DOMAIN pass :
    (Done(p) /\ conf.DisallowExemptions) =>
      pass[p].ret = RunAlone(conf, builtInChecks,
                             WithAnnotations(manifest, <<>>), pass[p])

\* exemptions are disallowed, the manifest exempts all checks and one check
\* by name, and the pass has returned an entry for that check
C3_Witness ==
  \E p \in DOMAIN pass :
    /\ Done(p)
    /\ conf.DisallowExemptions
    /\ pass[p].scope \in WorkloadScopes
    /\ BlanketExempt(manifest)
    /\ PerCheckExempt(manifest, "memoryLimitsMissing")
    /\ "memoryLimitsMissing" \in DOMAIN pass[p].ret.results
    /\ ~pass[p].ret.results["memoryLimitsMissing"].Success

\* the exemption filter skips X in this pass: only the pod, controller and
\* container passes consult the annotations
ExemptedIn(ps, X) ==
  ps.scope \in WorkloadScopes /\ exemptionApplies(conf, manifest, X)

\* the predicate of definition def on the fragment the pass ps evaluates
EvalFor(ps, def) ==
  CASE ps.scope = "Pod" -> CheckPod(def, manifest.PodSpec)
    [] ps.scope = "Controller" -> CheckController(def, manifest.OriginalObjectJSON)
    [] ps.scope = "Container" ->
         IF def.SchemaTarget = TargetPod
         THEN CheckPod(def, [manifest.PodSpec EXCEPT
                               !.Containers = <<ps.container>>,
                               !.InitContainers = <<>>])
         ELSE CheckContainer(def, ps.container)
    [] OTHER -> CheckObject(def, manifest)

\* definition def passes both actionability tests in the pass ps
Actionable(ps, def) ==
  /\ ConfIsActionable(conf, def.ID, manifest.ObjectMeta.Namespace,
                      manifest.ObjectMeta.Name, ps.container.Name)
  /\ CheckIsActionable(def, TargetOf(ps.scope), manifest.Kind, ps.isInit)

\* how the iteration for check ID X ends when X resolves to definition def
ExpectedKind(ps, X, def) ==
  IF ExemptedIn(ps, X) THEN "exempted"
  ELSE IF ~Actionable(ps, def) THEN "skipped"
  ELSE IF EvalFor(ps, def).err # Nil THEN "evalError"
  ELSE "recorded"

\* the ResultRecord of check ID X built from definition def
ExpectedRecord(ps, X, def) ==
  LET passes == EvalFor(ps, def).passes
  IN  [ID |-> X, Severity |-> conf.Checks[X], Category |-> def.Category,
       Success |-> passes,
       Message |-> IF passes THEN def.SuccessMessage ELSE def.FailureMessage]

(***************************************************************************)
(* C4: when the check list holds an ID that is in neither catalog and is   *)
(* not exempted for the manifest, the pass returns an error and zero       *)
(* ResultRecords; the error is check-not-found unless an earlier check in  *)
(* evaluation order aborted the pass; the actionability rules for that ID  *)
(* never turn it into a skip.                                              *)
(***************************************************************************)
C4_UnknownCheckAborts ==
  \A p \in DOMAIN pass : \A U \in DOMAIN conf.Checks :
    ( /\ Done(p)
      /\ Unknown(U)
      /\ ~(~conf.DisallowExemptions /\
            (BlanketExempt(manifest) \/ PerCheckExempt(manifest, U))) ) =>
      /\ pass[p].ret.err # Nil
      /\ pass[p].ret.isNil
      /\ DOMAIN pass[p].ret.results = {}
      /\ \/ pass[p].ret.err = NotFoundError(U)
         \/ /\ Entries(p, U) = {}
            /\ \E k \in DOMAIN pass[p].trace :
                 /\ pass[p].trace[k].kind \in ErrorKinds
                 /\ StringLess(pass[p].trace[k].id, U)

\* a pass has recorded a check and then returned check-not-found for an
\* unknown ID that an exclusion rule of the configuration names for this
\* manifest
C4_Witness ==
  \E p \in DOMAIN pass :
    /\ Done(p)
    /\ "myOrgCheck" \in DOMAIN conf.Checks
    /\ Unknown("myOrgCheck")
    /\ ~ConfIsActionable(conf, "myOrgCheck", manifest.ObjectMeta.Namespace,
                         manifest.ObjectMeta.Name, pass[p].container.Name)
    /\ pass[p].ret.err = NotFoundError("myOrgCheck")
    /\ pass[p].ret.isNil
    /\ DOMAIN pass[p].results # {}

(***************************************************************************)
(* C5: a pass visits the configured check IDs in lexicographic order; at   *)
(* the first iteration that ends in an error it returns that error with    *)
(* zero ResultRecords, evaluates no later check and has not recorded the   *)
(* failing check.                                                          *)
(***************************************************************************)
C5_FirstErrorAbortsPass ==
  \A p \in DOMAIN pass :
    LET ps == pass[p]
        ids == ps.checkIDs
        tr == ps.trace
    IN  ps.pc # "idle" =>
          /\ {ids[k] : k \in DOMAIN ids} = DOMAIN conf.Checks
          /\ \A j, k \in DOMAIN ids : j < k => StringLess(ids[j], ids[k])
          /\ Len(tr) <= Len(ids)
          /\ \A k \in DOMAIN tr : tr[k].id = ids[k]
          /\ \A k \in DOMAIN tr :
               tr[k].kind \in ErrorKinds =>
                 /\ k = Len(tr)
                 /\ ps.pc = "done"
                 /\ ps.ret.err # Nil
                 /\ ps.ret.err = IterationOf(conf, builtInChecks, manifest, ps, ids[k]).err
                 /\ ps.ret.isNil
                 /\ DOMAIN ps.ret.results = {}
                 /\ ids[k] \notin DOMAIN ps.results
          /\ (ps.pc = "done" /\ ps.ret.err # Nil) =>
               /\ tr # <<>>
               /\ tr[Len(tr)].kind \in ErrorKinds
          /\ (ps.pc = "done" /\ ps.ret.err = Nil) => Len(tr) = Len(ids)

\* a pass has recorded a check, then failed on the next one and returned
\* the error and no record, with a greater check ID left unvisited
C5_Witness ==
  \E p \in DOMAIN pass :
    /\ Done(p)
    /\ pass[p].ret.err # Nil
    /\ DOMAIN pass[p].results # {}
    /\ DOMAIN pass[p].ret.results = {}
    /\ Len(pass[p].trace) = 2
    /\ Len(pass[p].checkIDs) = 3
    /\ pass[p].trace[2].kind = "evalError"

(***************************************************************************)
(* C6: in a pod, controller or container pass the exemption test comes     *)
(* before resolution: an iteration for an exempted ID ends before          *)
(* resolveCheck is called, so an exempted ID absent from both catalogs     *)
(* gives neither check-not-found nor an entry, and the pass goes on to the *)
(* next check.                                                             *)
(***************************************************************************)
C6_ExemptionBeforeResolution ==
  \A p \in DOMAIN pass :
    LET ps == pass[p]
        tr == ps.trace
    IN  ps.scope \in WorkloadScopes =>
          \A k \in DOMAIN tr :
            ( /\ ~conf.DisallowExemptions
              /\ \/ BlanketExempt(manifest)
                 \/ PerCheckExempt(manifest, tr[k].id) ) =>
              /\ tr[k].kind = "exempted"
              /\ ps.ret.err # NotFoundError(tr[k].id)
              /\ tr[k].id \notin DOMAIN ps.results
              /\ tr[k].id \notin DOMAIN ps.ret.results
              /\ (ps.pc = "done" /\ k = Len(tr)) =>
                   (k = Len(ps.checkIDs) /\ ps.ret.err = Nil)

\* a pass has skipped an exempted ID that is in neither catalog, recorded a
\* later check and returned without error
C6_Witness ==
  \E p \in DOMAIN pass :
    /\ Done(p)
    /\ pass[p].scope \in WorkloadScopes
    /\ ~BlanketExempt(manifest)
    /\ Unknown("myOrgCheck")
    /\ Len(pass[p].trace) = 3
    /\ pass[p].trace[2] = [id |-> "myOrgCheck", kind |-> "exempted"]
    /\ pass[p].trace[3].kind = "recorded"
    /\ pass[p].ret.err = Nil

(***************************************************************************)
(* C7: when a pass returns without error, its ResultSet has an entry for   *)
(* X exactly when X is configured, was not exempted, resolves, passes the  *)
(* global and the structural actionability tests and had its predicate     *)
(* evaluated; an exemption, a global exclusion and a structural mismatch   *)
(* leave no entry, signal no error and let every remaining check run.      *)
(***************************************************************************)
C7_EntriesAreEvaluatedChecks ==
  \A p \in DOMAIN pass :
    LET ps == pass[p]
        tr == ps.trace
    IN  (ps.pc = "done" /\ ps.ret.err = Nil) =>
          /\ ~ps.ret.isNil
          /\ Len(tr) = Len(ps.checkIDs)
          /\ \A X \in CheckIDs :
               X \in DOMAIN ps.ret.results <=>
                 /\ X \in DOMAIN conf.Checks
                 /\ ~ExemptedIn(ps, X)
                 /\ ~Unknown(X)
                 /\ Actionable(ps, lookupCheck(conf, builtInChecks, X).check)
                 /\ \E k \in Entries(p, X) : tr[k].kind = "recorded"
          /\ \A k \in DOMAIN tr :
               tr[k].kind \in {"exempted", "skipped"} =>
                 tr[k].id \notin DOMAIN ps.ret.results

\* a pass has returned without error after an exemption, a global
\* exclusion or structural mismatch, and a recorded check
C7_Witness ==
  \E p \in DOMAIN pass :
    /\ Done(p)
    /\ pass[p].ret.err = Nil
    /\ Len(pass[p].trace) = 3
    /\ {pass[p].trace[k].kind : k \in 1..3} = {"exempted", "skipped", "recorded"}
    /\ \E k \in 1..3 :
         /\ pass[p].trace[k].kind = "skipped"
         /\ ~ConfIsActionable(conf, pass[p].trace[k].id,
                              manifest.ObjectMeta.Namespace,
                              manifest.ObjectMeta.Name, pass[p].container.Name)
    /\ Cardinality(DOMAIN pass[p].ret.results) = 1

(***************************************************************************)
(* C8: for a check ID in both the custom checks and the built-in catalog   *)
(* the custom definition decides the actionability, the predicate and the  *)
(* category and messages of the record; the built-in definition decides    *)
(* them only when no custom check has that ID.                             *)
(***************************************************************************)
C8_CustomOverridesBuiltIn ==
  \A p \in DOMAIN pass :
    LET ps == pass[p]
        tr == ps.trace
    IN  \A k \in DOMAIN tr :
          LET X == tr[k].id
              def == IF X \in DOMAIN conf.CustomChecks
                     THEN conf.CustomChecks[X]
                     ELSE builtInChecks[X]
          IN  X \in DOMAIN builtInChecks =>
                /\ tr[k].kind = ExpectedKind(ps, X, def)
                /\ tr[k].kind = "recorded" =>
                     /\ X \in DOMAIN ps.results
                     /\ ps.results[X] = ExpectedRecord(ps, X, def)

\* a controller pass has recorded hostIPCSet from its custom definition, a
\* controller check, where the built-in one is a pod check
C8_Witness ==
  \E p \in DOMAIN pass :
    /\ Done(p)
    /\ pass[p].scope = "Controller"
    /\ "hostIPCSet" \in DOMAIN conf.CustomChecks
    /\ "hostIPCSet" \in DOMAIN builtInChecks
    /\ "hostIPCSet" \in DOMAIN pass[p].ret.results
    /\ pass[p].ret.results["hostIPCSet"].Category = "Org"
    /\ pass[p].ret.results["hostIPCSet"].Message = "custom check failed"

(***************************************************************************)
(* C9: in a container pass a check whose SchemaTarget is Pod is evaluated  *)
(* on a pod specification holding the target container alone and no init  *)
(* container, so manifests that differ only in their other containers give *)
(* the same result for that check on that container.                       *)
(***************************************************************************)
OtherContainers(c) ==
  {Container(n, b) : n \in {"app", "sidecar", "init"} \ {c.Name}, b \in BOOLEAN}

OtherLists(c) == {<<>>} \cup {<<x>> : x \in OtherContainers(c)}

\* the manifests that differ from m in the containers other than c only
SiblingVariants(m, c, isInit) ==
  LET with == {<<c>> \o l : l \in OtherLists(c)} \cup {l \o <<c>> : l \in OtherLists(c)}
      without == OtherLists(c)
  IN  { [m EXCEPT !.PodSpec.Containers = IF isInit THEN o ELSE w,
                  !.PodSpec.InitContainers = IF isInit THEN w ELSE o] :
        w \in with, o \in without }

C9_PodShapedCheckSeesTargetOnly ==
  \A p \in DOMAIN pass :
    LET ps == pass[p]
    IN  ps.scope = "Container" =>
          \A k \in DOMAIN ps.trace :
            LET X == ps.trace[k].id
                def == lookupCheck(conf, builtInChecks, X).check
            IN  (ps.trace[k].kind = "recorded" /\ def.SchemaTarget = TargetPod) =>
                  /\ ps.results[X].Success =
                       CheckPod(def, [manifest.PodSpec EXCEPT
                                        !.Containers = <<ps.container>>,
                                        !.InitContainers = <<>>]).passes
                  /\ \A v \in SiblingVariants(manifest, ps.container, ps.isInit) :
                       LET o == containerIteration(conf, builtInChecks, v,
                                                   ps.container, ps.isInit, X)
                       IN  o.kind = "recorded" /\ o.msg = ps.results[X]

\* a container pass has recorded a pass of a pod-shaped check that reads
\* every container of its pod specification, on a target container with a
\* memory limit whose sibling has none
C9_Witness ==
  \E p \in DOMAIN pass :
    /\ Done(p)
    /\ pass[p].scope = "Container"
    /\ pass[p].container = Container("app", TRUE)
    /\ Container("sidecar", FALSE) \in
         {manifest.PodSpec.Containers[k] : k \in DOMAIN manifest.PodSpec.Containers}
    /\ "myOrgCheck" \in DOMAIN conf.CustomChecks
    /\ conf.CustomChecks["myOrgCheck"].SchemaTarget = TargetPod
    /\ conf.CustomChecks["myOrgCheck"].Schema =
         SchemaAllContainers("MemoryLimit", TRUE)
    /\ "myOrgCheck" \in DOMAIN pass[p].ret.results
    /\ pass[p].ret.results["myOrgCheck"].Success

(***************************************************************************)
(* C10: the catalog is empty until init has run and is the one init built  *)
(* from then on: passes interleaved over it and one configuration never    *)
(* write it, each returns what it returns when run alone, and two passes   *)
(* with the same arguments return the same ResultSet and error.            *)
(***************************************************************************)
C10_InterleavedPassesAreIndependent ==
  /\ phase = "boot" => builtInChecks = <<>>
  /\ phase = "ready" => builtInChecks = initBuiltInChecks
  /\ \A p \in DOMAIN pass :
       Done(p) =>
         pass[p].ret = RunAlone(conf, initBuiltInChecks, manifest, pass[p])
  /\ \A p, q \in DOMAIN pass :
       ( /\ Done(p) /\ Done(q)
         /\ pass[p].scope = pass[q].scope
         /\ pass[p].container = pass[q].container
         /\ pass[p].isInit = pass[q].isInit ) =>
         pass[p].ret = pass[q].ret

\* one pass has returned two records while a pass of the same entry point
\* on another container is half way through its loop
C10_Witness ==
  \E p, q \in DOMAIN pass :
    /\ p # q
    /\ Done(p)
    /\ Cardinality(DOMAIN pass[p].ret.results) = 2
    /\ pass[q].pc = "loop"
    /\ pass[q].i = 2
    /\ pass[q].scope = pass[p].scope
    /\ pass[q].container # pass[p].container
    /\ DOMAIN pass[q].results # {}

====
